---- MODULE Spec2Model ----
(***************************************************************************)
(* picycle.py: the `record` command.  Three asyncio tasks                  *)
(* (loop_record_track, loop_track_satellites, loop_led_matrix_update)      *)
(* share the globals PICYCLE_STATE, SESSION_STATE and LED_MATRIX.  The     *)
(* joystick handlers run on the Sense HAT's callback thread and the        *)
(* SIGTERM handler runs between any two bytecodes of the main thread, so   *)
(* both interleave with every step of a task; the tasks themselves are     *)
(* cooperative and hand over the event loop only at `await`.               *)
(***************************************************************************)
EXTENDS Integers, Sequences, FiniteSets, TLC

\* ---------------------------------------------------------------- bounds
\* Number of READY -> IN_PROGRESS transitions the rider makes in one run.
MaxSessions == 2
\* Largest satellite count gpsd reports.
MaxSats == 18

\* ------------------------------------------------------ program constants
TICK == 1
COOLDOWN == 3
FIX_3D == 3

RUNNING == "RUNNING"
TERMINATE == "TERMINATE"
READY == "READY"
IN_PROGRESS == "IN_PROGRESS"

ACTION_PRESSED == "pressed"
StickActions == {"pressed", "released", "held"}

O == <<0, 0, 0>>
RED == <<255, 0, 0>>
YELLOW == <<255, 255, 0>>
GREEN == <<0, 255, 0>>
WHITE == <<255, 255, 255>>
BLUE == <<0, 0, 255>>

Cells == 0..63
IndicatorCells == 16..23

\* Values gpsd.get_current() reports: the fix mode and the satellite count.
PacketModes == {1, 2, 3}
SatCounts == {0, MaxSats}

Tasks == {"task_1", "task_2", "task_3"}
Sleeping == {"l236", "l300", "l208", "l173"}
Stopped == {"exit0", "exit1", "killed", "crashed"}

VARIABLES
    PICYCLE_STATE,   \* global, line 29
    SESSION_STATE,   \* global, line 30
    LED_MATRIX,      \* global, lines 67-76
    panel,           \* what the Sense HAT shows: [kind, pixels]
    main_pc,         \* position of the main thread in record()
    pc,              \* position of each task
    timer,           \* second boundaries loop_record_track's sleep still has to cross
    running,         \* the task that holds the event loop, or "none"
    ready,           \* FIFO of the tasks created and not yet run
    sigterm_installed, \* signal.signal(SIGTERM, sigterm_handler) has run
    connection,      \* loop_record_track's `connection`: 0 is None, else an index of stores
    stores,          \* every database create_connection opened: [name, open]
    table,           \* the file opened last holds the table picycle
    now,             \* the wall clock at second resolution, as used in the name
    hist             \* history of the run, read by the properties only

vars == <<PICYCLE_STATE, SESSION_STATE, LED_MATRIX, panel, main_pc, pc, timer,
          running, ready, sigterm_installed, connection, stores, table, now, hist>>

globals == <<PICYCLE_STATE, SESSION_STATE>>
display == <<LED_MATRIX, panel>>
sched == <<pc, timer, running, ready>>
storage == <<connection, stores, table>>

Alive == main_pc \notin Stopped

Min(a, b) == IF a < b THEN a ELSE b

\* ------------------------------------------------------------------ Init
Init ==
    /\ PICYCLE_STATE = RUNNING
    /\ SESSION_STATE = READY
    /\ LED_MATRIX = [i \in Cells |-> O]
    /\ panel = [kind |-> "off", pixels |-> [i \in Cells |-> O]]
    /\ main_pc = "l514"
    /\ pc = [t \in Tasks |-> "new"]
    /\ timer = 0
    /\ running = "none"
    /\ ready = <<>>
    /\ sigterm_installed = FALSE
    /\ connection = 0
    /\ stores = <<>>
    /\ table = FALSE
    /\ now = 0
    /\ hist = [lastPress |-> "none",      \* the last start- or stop-press
               transitions |-> 0,         \* READY -> IN_PROGRESS transitions
               mode |-> 0,                \* this tick: the fix mode polled (0: none yet)
               lastInsert |-> "none",     \* this tick: "nofix", or the INSERT's "ok" or "failed"
               insertState |-> "none",    \* this tick: SESSION_STATE when the INSERT ran
               insertLate |-> FALSE,      \* this tick: a stop-press came after line 259's test
               stopPending |-> FALSE,     \* stop-press on the open store, no start-press since
               appendsSinceStop |-> 0,    \* rows appended since that stop-press
               checkedSinceStop |-> FALSE,\* line 259 read SESSION_STATE since then
               startWaits |-> 0,          \* sleeps of line 236 ended since the start-press not yet acted on
               polled |-> FALSE,          \* gpsd polled by the record loop on the open store
               clears |-> 0,              \* SENSE.clear() calls since PICYCLE_STATE = TERMINATE
               pushAfterClear |-> FALSE,  \* set_pixels after such a clear
               termActive |-> FALSE,      \* TERMINATE was set while IN_PROGRESS
               termOpen |-> FALSE,        \* TERMINATE was set while a database was open
               cooled |-> 0,              \* seconds passed in time.sleep(3)
               createFailed |-> FALSE,    \* CREATE TABLE failed on the open store
               sats |-> 0]                \* the satellite count the last tick of SatSpec read


\* --------------------------------------------------------------- helpers
Blank == [i \in Cells |-> O]

\* SENSE.clear(): every pixel off.
SenseClear == [kind |-> "clear", pixels |-> Blank]

\* SENSE.clear() as the history sees it: counted once PICYCLE_STATE is TERMINATE.
NoteClear(h) ==
    IF PICYCLE_STATE = TERMINATE THEN [h EXCEPT !.clears = Min(@ + 1, 3)] ELSE h

\* The history after a handler has run: transitions and terminations are
\* read off the globals before and after it.
NoteGlobals(h) ==
    [h EXCEPT
       !.transitions = IF SESSION_STATE = READY /\ SESSION_STATE' = IN_PROGRESS
                       THEN @ + 1 ELSE @,
       !.startWaits = IF SESSION_STATE' = READY THEN 0 ELSE @,
       !.termActive = IF PICYCLE_STATE = RUNNING /\ PICYCLE_STATE' = TERMINATE
                      THEN SESSION_STATE = IN_PROGRESS ELSE @,
       !.termOpen = IF PICYCLE_STATE = RUNNING /\ PICYCLE_STATE' = TERMINATE
                    THEN connection # 0 ELSE @]

\* ------------------------------------------------- joystick and signals
\* Mutant: a start-press also puts the run state back to RUNNING.
pushed_left_Restart(event) ==
    /\ SESSION_STATE' = IF event.action = ACTION_PRESSED THEN IN_PROGRESS
                        ELSE SESSION_STATE
    /\ PICYCLE_STATE' = IF event.action = ACTION_PRESSED THEN RUNNING
                        ELSE PICYCLE_STATE

pushed_left(event) ==
    /\ SESSION_STATE' = IF event.action = ACTION_PRESSED THEN IN_PROGRESS
                        ELSE SESSION_STATE
    /\ UNCHANGED PICYCLE_STATE

\* Mutant: the handler does not test event.action.
pushed_right_AnyAction(event) ==
    /\ SESSION_STATE' = READY
    /\ UNCHANGED PICYCLE_STATE

pushed_right(event) ==
    /\ SESSION_STATE' = IF event.action = ACTION_PRESSED THEN READY
                        ELSE SESSION_STATE
    /\ UNCHANGED PICYCLE_STATE

pushed_down(event) ==
    /\ PICYCLE_STATE' = IF event.action = ACTION_PRESSED THEN TERMINATE
                        ELSE PICYCLE_STATE
    /\ UNCHANGED SESSION_STATE

sigterm_handler ==
    /\ PICYCLE_STATE' = TERMINATE
    /\ UNCHANGED SESSION_STATE

\* The Sense HAT delivers a left event to its handler.
StickLeft ==
    /\ Alive
    /\ \E a \in StickActions :
         /\ pushed_left([direction |-> "left", action |-> a])
         /\ hist' = [NoteGlobals(hist) EXCEPT
                       !.lastPress = IF a = ACTION_PRESSED THEN "left" ELSE @,
                       !.stopPending = IF a = ACTION_PRESSED THEN FALSE ELSE @]
    /\ hist'.transitions <= MaxSessions
    /\ UNCHANGED <<display, main_pc, sched, sigterm_installed, storage, now>>

StickRight ==
    /\ Alive
    /\ \E a \in StickActions :
         /\ pushed_right([direction |-> "right", action |-> a])
         /\ LET first == a = ACTION_PRESSED /\ connection # 0 /\ ~hist.stopPending
            IN hist' = [NoteGlobals(hist) EXCEPT
                          !.lastPress = IF a = ACTION_PRESSED THEN "right" ELSE @,
                          !.stopPending = IF first THEN TRUE ELSE @,
                          !.appendsSinceStop = IF first THEN 0 ELSE @,
                          !.checkedSinceStop = IF first THEN FALSE ELSE @]
    /\ hist'.transitions <= MaxSessions
    /\ UNCHANGED <<display, main_pc, sched, sigterm_installed, storage, now>>

StickDown ==
    /\ Alive
    /\ \E a \in StickActions :
         pushed_down([direction |-> "down", action |-> a])
    /\ hist' = NoteGlobals(hist)
    /\ hist'.transitions <= MaxSessions
    /\ UNCHANGED <<display, main_pc, sched, sigterm_installed, storage, now>>

\* SIGTERM reaches the process: the handler of line 220 once line 226 has
\* installed it, the default disposition (the process is killed) before.
Sigterm ==
    /\ Alive
    /\ IF sigterm_installed
       THEN /\ sigterm_handler
            /\ hist' = NoteGlobals(hist)
            /\ UNCHANGED main_pc
       ELSE /\ main_pc' = "killed"
            /\ UNCHANGED <<globals, hist>>
    /\ UNCHANGED <<display, sched, sigterm_installed, storage, now>>

\* The wall clock crosses a second boundary.  Seconds in which no database
\* was named are indistinguishable to the program, so `now` moves on only
\* past a second whose name is in use.
Tick ==
    /\ Alive
    /\ timer' = IF timer > 0 THEN timer - 1 ELSE 0
    /\ now' = IF \E i \in 1..Len(stores) : stores[i].name = now THEN now + 1 ELSE now
    /\ hist' = IF pc["task_1"] = "l308"
               THEN [hist EXCEPT !.cooled = Min(@ + 1, COOLDOWN)] ELSE hist
    /\ UNCHANGED <<globals, display, main_pc, pc, running, ready, sigterm_installed,
                   storage>>

\* ------------------------------------------------------------ record()
record_show_message ==
    /\ main_pc = "l514"
    /\ panel' = [kind |-> "message", pixels |-> Blank]
    /\ main_pc' = "l517"
    /\ UNCHANGED <<globals, LED_MATRIX, sched, sigterm_installed, storage, now, hist>>

\* gpsd.connect() returns, or raises and ends the command.
record_gpsd_connect ==
    /\ main_pc = "l517"
    /\ \E ok \in BOOLEAN : main_pc' = IF ok THEN "l520" ELSE "crashed"
    /\ UNCHANGED <<globals, display, sched, sigterm_installed, storage, now, hist>>

\* session(): the three tasks are created, in this order.
session_create_tasks ==
    /\ main_pc = "l520"
    /\ pc' = [t \in Tasks |-> CASE t = "task_1" -> "l226"
                                [] t = "task_2" -> "l182"
                                [] t = "task_3" -> "l169"]
    /\ ready' = <<"task_1", "task_2", "task_3">>
    /\ main_pc' = "l541"
    /\ UNCHANGED <<globals, display, timer, running, sigterm_installed, storage,
                   now, hist>>

\* session(): the three awaits return once every task is done.
session_await ==
    /\ main_pc = "l541"
    /\ \A t \in Tasks : pc[t] = "done"
    /\ main_pc' = "l523"
    /\ UNCHANGED <<globals, display, sched, sigterm_installed, storage, now, hist>>

record_clear ==
    /\ main_pc = "l523"
    /\ panel' = SenseClear
    /\ hist' = NoteClear(hist)
    /\ main_pc' = "exit0"
    /\ UNCHANGED <<globals, LED_MATRIX, sched, sigterm_installed, storage, now>>

\* ------------------------------------------------------- the event loop
AfterSleep(l) ==
    CASE l = "l236" -> "l228"
      [] l = "l300" -> "l259"
      [] l = "l208" -> "l182"
      [] l = "l173" -> "l169"

\* asyncio gives the loop to a task: the tasks just created run first, in
\* creation order; a sleeping task resumes once its second has passed.
EventLoopRun(t) ==
    /\ main_pc = "l541"
    /\ running = "none"
    /\ IF ready # <<>>
       THEN /\ Head(ready) = t
            /\ ready' = Tail(ready)
            /\ UNCHANGED <<pc, hist>>
       ELSE /\ pc[t] \in Sleeping
            /\ t = "task_1" => timer = 0
            /\ pc' = [pc EXCEPT ![t] = AfterSleep(pc[t])]
            /\ hist' = IF pc[t] = "l236" /\ SESSION_STATE = IN_PROGRESS
                       THEN [hist EXCEPT !.startWaits = Min(@ + 1, 2)]
                       ELSE hist
            /\ UNCHANGED ready
    /\ running' = t
    /\ UNCHANGED <<globals, display, main_pc, timer, sigterm_installed, storage,
                   now>>

At(t, l) == main_pc = "l541" /\ running = t /\ pc[t] = l

Goto(t, l) == pc' = [pc EXCEPT ![t] = l] /\ UNCHANGED <<timer, running, ready>>

\* await asyncio.sleep(n) at line l.  Nothing in the program observes how
\* long the other two loops sleep, so only loop_record_track's sleep is timed.
Sleep(t, l, n) ==
    /\ pc' = [pc EXCEPT ![t] = l]
    /\ timer' = IF t = "task_1" THEN n ELSE timer
    /\ running' = "none"
    /\ UNCHANGED ready

Return(t) ==
    /\ pc' = [pc EXCEPT ![t] = "done"]
    /\ running' = "none"
    /\ UNCHANGED <<timer, ready>>


\* --------------------------------------------------- database functions
\* create_connection(path): sqlite3.connect succeeds (ok) and a connection
\* to the file named path is returned, or fails and None is returned.  A
\* file that exists already (names never go back, so it is the one opened
\* last) keeps its table; a new file has none.
create_connection(path, ok) ==
    IF ok
    THEN /\ stores' = Append(stores, [name |-> path, open |-> TRUE])
         /\ connection' = Len(stores) + 1
         /\ table' = (stores # <<>> /\ stores[Len(stores)].name = path /\ table)
    ELSE /\ connection' = 0
         /\ UNCHANGED <<stores, table>>

\* packet.position(), altitude() and movement() raise NoFixError below a 3D fix.
NoFixError_Below2D(p) == p.mode < FIX_3D - 1

NoFixError(p) == p.mode < FIX_3D

\* execute_query(connection, SQLITE_INSERT, data) appends the row when the
\* statement succeeds; sqlite3.Error is caught and echoed.
InsertSucceeds(ok) == ok /\ table

\* ---------------------------------------------------- loop_record_track
Rec_l226 ==
    /\ At("task_1", "l226")
    /\ sigterm_installed' = TRUE
    /\ Goto("task_1", "l228")
    /\ UNCHANGED <<globals, display, main_pc, storage, now, hist>>

\* while PICYCLE_STATE == PicycleState.RUNNING
Rec_l228 ==
    /\ At("task_1", "l228")
    /\ Goto("task_1", IF PICYCLE_STATE = RUNNING THEN "l230" ELSE "l312")
    /\ UNCHANGED <<globals, display, main_pc, sigterm_installed, storage, now, hist>>

\* Mutant: the test of line 234 is inverted.
Rec_l230_Inverted ==
    /\ At("task_1", "l230")
    /\ LED_MATRIX' = [i \in Cells |-> IF i \in IndicatorCells THEN WHITE
                                      ELSE LED_MATRIX[i]]
    /\ IF SESSION_STATE = IN_PROGRESS
       THEN Sleep("task_1", "l236", TICK)
       ELSE Goto("task_1", "l239")
    /\ UNCHANGED <<globals, panel, main_pc, sigterm_installed, storage, now, hist>>

\* lines 230-237: the indicator row goes white, then SESSION_STATE is tested.
Rec_l230 ==
    /\ At("task_1", "l230")
    /\ LED_MATRIX' = [i \in Cells |-> IF i \in IndicatorCells THEN WHITE
                                      ELSE LED_MATRIX[i]]
    /\ IF SESSION_STATE # IN_PROGRESS
       THEN Sleep("task_1", "l236", TICK)
       ELSE Goto("task_1", "l239")
    /\ UNCHANGED <<globals, panel, main_pc, sigterm_installed, storage, now, hist>>

\* lines 239-253: the indicator row goes blue, the database is named after
\* the current second and opened.
\* Mutant: the indicator row is left white when the store is opened.
Rec_l239_NoBlue ==
    /\ At("task_1", "l239")
    /\ \E ok \in BOOLEAN :
         /\ create_connection(now, ok)
         /\ Goto("task_1", IF connection' # 0 THEN "l256" ELSE "l307")
    /\ hist' = [hist EXCEPT !.startWaits = 0]
    /\ UNCHANGED <<globals, display, main_pc, sigterm_installed, now>>

Rec_l239 ==
    /\ At("task_1", "l239")
    /\ LED_MATRIX' = [i \in Cells |-> IF i \in IndicatorCells THEN BLUE
                                      ELSE LED_MATRIX[i]]
    /\ \E ok \in BOOLEAN :
         /\ create_connection(now, ok)
         /\ Goto("task_1", IF connection' # 0 THEN "l256" ELSE "l307")
    /\ hist' = [hist EXCEPT !.startWaits = 0]
    /\ UNCHANGED <<globals, panel, main_pc, sigterm_installed, now>>

\* execute_query(connection, SQLITE_CREATE_TABLE): the error is caught and
\* echoed, and the loop goes on either way.
Rec_l256 ==
    /\ At("task_1", "l256")
    /\ \E ok \in BOOLEAN :
         /\ table' = (table \/ ok)
         /\ hist' = [hist EXCEPT !.createFailed = ~ok]
    /\ Goto("task_1", "l259")
    /\ UNCHANGED <<globals, display, main_pc, sigterm_installed, connection, stores,
                   now>>

\* Mutant: the inner loop tests PICYCLE_STATE only.
Rec_l259_RunOnly ==
    /\ At("task_1", "l259")
    /\ Goto("task_1", IF PICYCLE_STATE = RUNNING THEN "l261" ELSE "l302")
    /\ hist' = [hist EXCEPT !.mode = 0, !.lastInsert = "none",
                            !.insertState = "none", !.insertLate = FALSE]
    /\ UNCHANGED <<globals, display, main_pc, sigterm_installed, storage, now>>

\* line 259, left operand: PICYCLE_STATE == PicycleState.RUNNING
Rec_l259 ==
    /\ At("task_1", "l259")
    /\ Goto("task_1", IF PICYCLE_STATE = RUNNING THEN "l259s" ELSE "l302")
    /\ hist' = [hist EXCEPT !.mode = 0, !.lastInsert = "none",
                            !.insertState = "none", !.insertLate = FALSE]
    /\ UNCHANGED <<globals, display, main_pc, sigterm_installed, storage, now>>

\* Mutant: the comparison with IN_PROGRESS is inverted.
Rec_l259s_Inverted ==
    /\ At("task_1", "l259s")
    /\ Goto("task_1", IF SESSION_STATE # IN_PROGRESS THEN "l261" ELSE "l302")
    /\ hist' = [hist EXCEPT !.checkedSinceStop = @ \/ hist.stopPending]
    /\ UNCHANGED <<globals, display, main_pc, sigterm_installed, storage, now>>

\* line 259, right operand: SESSION_STATE == SessionState.IN_PROGRESS
Rec_l259s ==
    /\ At("task_1", "l259s")
    /\ Goto("task_1", IF SESSION_STATE = IN_PROGRESS THEN "l261" ELSE "l302")
    /\ hist' = [hist EXCEPT !.checkedSinceStop = @ \/ hist.stopPending]
    /\ UNCHANGED <<globals, display, main_pc, sigterm_installed, storage, now>>

\* lines 261-300: packet = gpsd.get_current() reports fix mode m; the fix
\* is read out of the packet and inserted, or NoFixError is caught; then
\* the loop sleeps.
Rec_l261_FailFatal ==
    /\ At("task_1", "l261")
    /\ \E m \in PacketModes, ok \in BOOLEAN :
         /\ hist' = IF NoFixError([mode |-> m])
                    THEN [hist EXCEPT !.polled = TRUE, !.mode = m, !.lastInsert = "nofix"]
                    ELSE [hist EXCEPT !.polled = TRUE, !.mode = m,
                            !.insertState = SESSION_STATE,
                            !.insertLate = hist.stopPending /\ ~hist.checkedSinceStop,
                            !.lastInsert = IF InsertSucceeds(ok) THEN "ok" ELSE "failed",
                            !.appendsSinceStop = IF hist.stopPending /\ InsertSucceeds(ok)
                                                 THEN Min(@ + 1, 2) ELSE @]
         /\ IF NoFixError([mode |-> m]) \/ InsertSucceeds(ok)
            THEN Sleep("task_1", "l300", TICK)
            ELSE Goto("task_1", "l307")
    /\ UNCHANGED <<globals, display, main_pc, sigterm_installed, storage, now>>

Rec_l261 ==
    /\ At("task_1", "l261")
    /\ \E m \in PacketModes, ok \in BOOLEAN :
         hist' = IF NoFixError([mode |-> m])
                 THEN [hist EXCEPT !.polled = TRUE, !.mode = m,
                                   !.lastInsert = "nofix"]
                 ELSE [hist EXCEPT
                         !.polled = TRUE,
                         !.mode = m,
                         !.insertState = SESSION_STATE,
                         !.insertLate = hist.stopPending /\ ~hist.checkedSinceStop,
                         !.lastInsert = IF InsertSucceeds(ok) THEN "ok" ELSE "failed",
                         !.appendsSinceStop =
                             IF hist.stopPending /\ InsertSucceeds(ok)
                             THEN Min(@ + 1, 2) ELSE @]
    /\ Sleep("task_1", "l300", TICK)
    /\ UNCHANGED <<globals, display, main_pc, sigterm_installed, storage, now>>

\* Mutant: the loop forgets connection.close().
Rec_l302_NoClose ==
    /\ At("task_1", "l302")
    /\ connection' = 0
    /\ Goto("task_1", "l228")
    /\ hist' = [hist EXCEPT !.polled = FALSE, !.stopPending = FALSE,
                            !.appendsSinceStop = 0, !.checkedSinceStop = FALSE]
    /\ UNCHANGED <<globals, display, main_pc, sigterm_installed, stores, table, now>>

\* connection.close(); the closed handle is not used again before line 248
\* assigns a new one.
Rec_l302 ==
    /\ At("task_1", "l302")
    /\ stores' = [stores EXCEPT ![connection].open = FALSE]
    /\ connection' = 0
    /\ Goto("task_1", "l228")
    /\ hist' = [hist EXCEPT !.polled = FALSE, !.stopPending = FALSE,
                            !.appendsSinceStop = 0, !.checkedSinceStop = FALSE,
                            !.createFailed = FALSE]
    /\ UNCHANGED <<globals, display, main_pc, sigterm_installed, table, now>>

\* Mutant: the cooldown lasts one second.
Rec_l307_ShortSleep ==
    /\ At("task_1", "l307")
    /\ panel' = [kind |-> "letter", pixels |-> Blank]
    /\ pc' = [pc EXCEPT !["task_1"] = "l308"]
    /\ timer' = TICK
    /\ UNCHANGED <<globals, LED_MATRIX, main_pc, running, ready, sigterm_installed,
                   storage, now, hist>>

\* SENSE.show_letter("E", (255, 0, 0)); time.sleep(3) starts, and it blocks
\* the event loop: no other task runs until line 310.
Rec_l307 ==
    /\ At("task_1", "l307")
    /\ panel' = [kind |-> "letter", pixels |-> Blank]
    /\ pc' = [pc EXCEPT !["task_1"] = "l308"]
    /\ timer' = COOLDOWN
    /\ UNCHANGED <<globals, LED_MATRIX, main_pc, running, ready, sigterm_installed,
                   storage, now, hist>>

\* time.sleep(3) returns.
Rec_l308 ==
    /\ At("task_1", "l308")
    /\ timer = 0
    /\ Goto("task_1", "l309")
    /\ UNCHANGED <<globals, display, main_pc, sigterm_installed, storage, now, hist>>

Rec_l309 ==
    /\ At("task_1", "l309")
    /\ panel' = SenseClear
    /\ hist' = NoteClear(hist)
    /\ Goto("task_1", "l310")
    /\ UNCHANGED <<globals, LED_MATRIX, main_pc, sigterm_installed, storage, now>>

\* sys.exit(1): SystemExit leaves the task, the event loop and the process.
Rec_l310 ==
    /\ At("task_1", "l310")
    /\ main_pc' = "exit1"
    /\ UNCHANGED <<globals, display, sched, sigterm_installed, storage, now, hist>>

\* Mutant: the loop returns without SENSE.clear().
Rec_l312_NoClear ==
    /\ At("task_1", "l312")
    /\ Return("task_1")
    /\ UNCHANGED <<globals, display, main_pc, sigterm_installed, storage, now, hist>>

\* lines 312-313
Rec_l312 ==
    /\ At("task_1", "l312")
    /\ panel' = SenseClear
    /\ hist' = NoteClear(hist)
    /\ Return("task_1")
    /\ UNCHANGED <<globals, LED_MATRIX, main_pc, sigterm_installed, storage, now>>

loop_record_track ==
    \/ Rec_l226 \/ Rec_l228 \/ Rec_l230 \/ Rec_l239 \/ Rec_l256 \/ Rec_l259
    \/ Rec_l259s \/ Rec_l261 \/ Rec_l302 \/ Rec_l307 \/ Rec_l308
    \/ Rec_l309 \/ Rec_l310 \/ Rec_l312

\* ------------------------------------------------- loop_track_satellites
\* Mutant: odd satellites start at row 2.
SatIdx_OddRow2(x) == (IF x % 2 = 0 THEN 0 ELSE 16) + (x \div 2)

\* lines 186-194
SatIdx(x) == (IF x % 2 = 0 THEN 0 ELSE 8) + (x \div 2)

\* lines 196-206: the body of the for loop for satellite x.
SatPaint(m, x) ==
    IF 0 <= x /\ x <= 3 THEN [m EXCEPT ![SatIdx(x)] = RED]
    ELSE IF 3 < x /\ x < 8 THEN [m EXCEPT ![SatIdx(x)] = YELLOW]
    ELSE IF 8 <= x /\ x <= 16 THEN [m EXCEPT ![SatIdx(x)] = GREEN]
    ELSE m

\* for x in range(sats), from x = k on.
RECURSIVE SatRender(_, _, _)
SatRender(m, k, sats) ==
    IF k >= sats THEN m ELSE SatRender(SatPaint(m, k), k + 1, sats)

\* Mutant: while True.
Sat_l182_Forever ==
    /\ At("task_2", "l182")
    /\ \E sats \in SatCounts : LED_MATRIX' = SatRender(LED_MATRIX, 0, sats)
    /\ Sleep("task_2", "l208", TICK)
    /\ UNCHANGED <<globals, panel, main_pc, sigterm_installed, storage, now, hist>>

\* One turn of the loop, from the test of line 182 to the await of line
\* 208, or to the return.  The handlers write the two state globals only and
\* the body reads neither, so the turn is one step.
Sat_l182 ==
    /\ At("task_2", "l182")
    /\ IF PICYCLE_STATE = RUNNING
       THEN /\ \E sats \in SatCounts : LED_MATRIX' = SatRender(LED_MATRIX, 0, sats)
            /\ Sleep("task_2", "l208", TICK)
       ELSE /\ Return("task_2")
            /\ UNCHANGED LED_MATRIX
    /\ UNCHANGED <<globals, panel, main_pc, sigterm_installed, storage, now, hist>>

loop_track_satellites == Sat_l182

\* ------------------------------------------------ loop_led_matrix_update
\* One turn of the loop, from the test of line 169 through
\* SENSE.set_pixels(LED_MATRIX) to the await of line 173, or to the return.
Led_l169 ==
    /\ At("task_3", "l169")
    /\ IF PICYCLE_STATE = RUNNING
       THEN /\ panel' = [kind |-> "frame", pixels |-> LED_MATRIX]
            /\ hist' = [hist EXCEPT !.pushAfterClear = @ \/ hist.clears > 0]
            /\ Sleep("task_3", "l173", TICK)
       ELSE /\ Return("task_3")
            /\ UNCHANGED <<panel, hist>>
    /\ UNCHANGED <<globals, LED_MATRIX, main_pc, sigterm_installed, storage, now>>

loop_led_matrix_update == Led_l169

\* ------------------------------------------------------------------ Next
Next ==
    \/ StickLeft \/ StickRight \/ StickDown \/ Sigterm \/ Tick
    \/ record_show_message \/ record_gpsd_connect \/ session_create_tasks
    \/ session_await \/ record_clear
    \/ \E t \in Tasks : EventLoopRun(t)
    \/ loop_record_track \/ loop_track_satellites \/ loop_led_matrix_update

Spec == Init /\ [][Next]_vars

\* The clock advances, asyncio runs a task whenever one is ready, a task
\* that holds the loop runs on, and the main thread runs on.  (asyncio's
\* FIFO queue guarantees more, that every ready task runs; the weaker
\* condition is all the properties below need.)
Fairness ==
    /\ WF_vars(Tick)
    /\ WF_vars(\E t \in Tasks : EventLoopRun(t))
    /\ WF_vars(loop_record_track)
    /\ WF_vars(loop_track_satellites)
    /\ WF_vars(loop_led_matrix_update)
    /\ WF_vars(session_await)
    /\ WF_vars(record_clear)

FairSpec == Spec /\ Fairness

\* The body of one tick of loop_track_satellites (lines 184-206) on its own:
\* the for loop applied to the buffer for a count sats reported by gpsd, tick
\* after tick, with the count of the tick remembered.
SatTick(sats) ==
    /\ LED_MATRIX' = SatRender(LED_MATRIX, 0, sats)
    /\ hist' = [hist EXCEPT !.sats = sats]
    /\ UNCHANGED <<globals, panel, main_pc, sched, sigterm_installed, storage, now>>

SatNext == \E sats \in 0..MaxSats : SatTick(sats)

SatSpec == Init /\ [][SatNext]_vars


\* ================================================================ claims
AllClosed == \A i \in 1..Len(stores) : ~stores[i].open
ErrorPath == {"l307", "l308", "l309", "l310"}
Opens == Len(stores) + (IF pc["task_1"] \in ErrorPath THEN 1 ELSE 0)

\* C1 (as stated): every INSERT is executed while SESSION_STATE is
\* IN_PROGRESS, under every interleaving of the handlers with the loop.
C1_InsertOnlyWhileActive == hist.insertState # READY

\* C1 (amended): every INSERT is executed in a tick whose test of line 259
\* read IN_PROGRESS; SESSION_STATE is READY at the INSERT only when the
\* stop-press arrived after that test.
C1_InsertAfterActiveCheck ==
    hist.insertState = READY => hist.insertLate

C1_Witness ==
    /\ hist.insertState = READY
    /\ hist.insertLate
    /\ hist.lastInsert = "ok"

\* C2 (as stated): after a stop-press on an open store no further Reading
\* is appended until another start-press.
C2_NoAppendAfterStop ==
    hist.stopPending => hist.appendsSinceStop = 0

\* C2 (amended): after a stop-press on an open store, with no start-press
\* since, at most one Reading is appended (the one of the tick whose test
\* had already passed), the loop's next test of SESSION_STATE sends it to
\* connection.close(), and no INSERT runs without an open store.
C2_StopClosesAtNextCheck ==
    /\ hist.stopPending =>
         /\ hist.appendsSinceStop <= 1
         /\ hist.checkedSinceStop => pc["task_1"] = "l302"
         /\ connection # 0
    /\ hist.lastInsert # "none" => connection # 0 /\ stores[connection].open

C2_Witness ==
    /\ hist.stopPending
    /\ hist.checkedSinceStop
    /\ hist.appendsSinceStop = 1
    /\ pc["task_1"] = "l302"

\* C3 (as stated): once the store is open (and its table exists), every
\* valid fix polled is appended.
C3_EveryValidFixAppended ==
    (hist.mode = FIX_3D /\ table) => hist.lastInsert = "ok"

\* C3 (amended): a start-press with no store open is acted on after at
\* most one sleep of the loop, by one create_connection; there are never
\* more opens than READY -> IN_PROGRESS transitions; and every 3D fix polled
\* is handed to INSERT (which appends it unless the statement fails), every
\* other poll is skipped.
C3_StartOpensOneStore ==
    /\ Opens <= hist.transitions
    /\ (SESSION_STATE = IN_PROGRESS /\ connection = 0) => hist.startWaits <= 1
    /\ hist.mode # 0 =>
         (hist.mode = FIX_3D <=> hist.lastInsert \in {"ok", "failed"})
    /\ hist.lastInsert = "ok" => hist.mode = FIX_3D /\ table

C3_Witness ==
    /\ hist.transitions = 1
    /\ Len(stores) = 1
    /\ connection = 1
    /\ hist.lastInsert = "ok"
    /\ PICYCLE_STATE = RUNNING

\* C4 (as stated): no two stores opened in one run have the same name.
C4_StoreNamesUnique ==
    \A i, j \in 1..Len(stores) : i # j => stores[i].name # stores[j].name

\* C5: once PICYCLE_STATE is TERMINATE, no step changes it.
C5_RunStateMonotonic ==
    [][PICYCLE_STATE = TERMINATE => PICYCLE_STATE' = TERMINATE]_vars

\* A start-press was delivered after the terminate-press.
C5_Witness ==
    /\ PICYCLE_STATE = TERMINATE
    /\ SESSION_STATE = IN_PROGRESS
    /\ ~hist.termActive

\* C6: SESSION_STATE is IN_PROGRESS iff the last start- or stop-press was a
\* start-press; nothing else changes it.
C6_SessionStateFollowsLastPress ==
    (SESSION_STATE = IN_PROGRESS) <=> (hist.lastPress = "left")

C6_Witness ==
    /\ hist.lastPress = "right"
    /\ SESSION_STATE = READY
    /\ hist.transitions = MaxSessions
    /\ PICYCLE_STATE = TERMINATE

\* C7 (as stated, for a run whose loops have started): once PICYCLE_STATE
\* is TERMINATE the process ends only by the clean exit.
C7_TerminatingEndsClean ==
    (PICYCLE_STATE = TERMINATE /\ sigterm_installed /\ main_pc \in Stopped)
        => main_pc = "exit0"

\* C7 (amended): no loop returns while PICYCLE_STATE is RUNNING; once it is
\* TERMINATE and the record loop has started, the process ends: with every
\* loop returned and status 0, or with status 1 from the record loop's
\* failed create_connection.
C7_LoopsEndOnTerminate ==
    /\ [](\A t \in Tasks : pc[t] = "done" => PICYCLE_STATE = TERMINATE)
    /\ [](main_pc = "exit0" => \A t \in Tasks : pc[t] = "done")
    /\ [](main_pc = "exit1" => pc["task_1"] = "l310" /\ connection = 0)
    /\ ((PICYCLE_STATE = TERMINATE /\ sigterm_installed)
           ~> (main_pc = "exit0" \/ main_pc = "exit1"))

C7_Witness ==
    /\ main_pc = "exit0"
    /\ hist.termActive
    /\ \A t \in Tasks : pc[t] = "done"

\* C8: when loop_record_track has returned, every store it opened is closed.
C8_StoresClosedOnReturn ==
    pc["task_1"] = "done" => AllClosed

C8_Witness ==
    /\ pc["task_1"] = "done"
    /\ hist.termOpen
    /\ stores # <<>>

\* C9 (as stated): a clean shutdown started while IN_PROGRESS calls
\* SENSE.clear() exactly once.
C9_ClearExactlyOnce ==
    (main_pc = "exit0" /\ hist.termActive) => hist.clears = 1

\* C9 (amended): a clean shutdown calls SENSE.clear() exactly twice, at
\* line 313 and at line 523, and no frame is pushed after the first.
C9_ClearTwiceNoPushAfter ==
    /\ main_pc = "exit0" => hist.clears = 2
    /\ main_pc = "l523" => hist.clears = 1
    /\ ~hist.pushAfterClear

C9_Witness ==
    /\ main_pc = "exit0"
    /\ hist.termActive
    /\ hist.clears = 2
    /\ stores # <<>>

\* C10: a failed create_connection shows the glyph, waits the cooldown,
\* clears the display and exits with status 1, in this order, with no
\* poll of gpsd and no INSERT.
C10_OpenFailureSequence ==
    /\ pc["task_1"] = "l308" => panel.kind = "letter"
    /\ pc["task_1"] = "l309" => panel.kind = "letter" /\ hist.cooled = COOLDOWN
    /\ pc["task_1"] = "l310" => panel.kind = "clear" /\ hist.cooled = COOLDOWN
    /\ main_pc = "exit1" => pc["task_1"] = "l310"
    /\ pc["task_1"] \in ErrorPath =>
         /\ connection = 0
         /\ AllClosed
         /\ ~hist.polled
         /\ hist.lastInsert = "none"

C10_Witness ==
    /\ main_pc = "exit1"
    /\ panel.kind = "clear"
    /\ hist.cooled = COOLDOWN


\* C11 (as stated): a failed CREATE TABLE at session start is fatal; the
\* loop never polls gpsd on a store whose CREATE TABLE failed.
C11_CreateFailureFatal ==
    hist.createFailed => (~hist.polled /\ pc["task_1"] \notin {"l261", "l300"})


\* The current store: the acquisition loop holds a connection and it is open.
StoreOpen == connection # 0 /\ stores[connection].open

\* The turn of loop_record_track that polls gpsd (line 261) and ends in the
\* sleep of line 300.
PollTurn == pc["task_1"] = "l261" /\ pc'["task_1"] = "l300"

\* C12: a tick whose packet has no 3D fix (mode below 3) appends nothing and
\* raises nothing: the loop is in (or has just left) the sleep of line 300
\* with the same store open, about to test the states and poll again, and
\* the turn itself changes neither state variable nor the store.
C12_NoFixTickHarmless ==
    /\ []((hist.mode # 0 /\ hist.mode < FIX_3D) =>
            /\ hist.lastInsert = "nofix"
            /\ StoreOpen
            /\ main_pc = "l541"
            /\ pc["task_1"] \in {"l300", "l259"})
    /\ [][(PollTurn /\ hist'.mode < FIX_3D) => UNCHANGED <<globals, storage>>]_vars

C12_Witness ==
    hist.mode = 2 /\ hist.lastInsert = "nofix" /\ pc["task_1"] = "l259" /\ StoreOpen

\* C13: a storage error on the INSERT is recovered within the tick: the
\* reading is dropped, the loop sleeps and comes back to its test with the
\* same store open, the process is still running the session, and the turn
\* itself changes neither state variable nor the store.
C13_AppendErrorRecovered ==
    /\ [](hist.lastInsert = "failed" =>
            /\ StoreOpen
            /\ main_pc = "l541"
            /\ pc["task_1"] \in {"l300", "l259"})
    /\ [][(PollTurn /\ hist'.lastInsert = "failed") => UNCHANGED <<globals, storage>>]_vars

C13_Witness ==
    hist.lastInsert = "failed" /\ table /\ pc["task_1"] = "l259" /\ StoreOpen


\* The cell and the tier the interleave rule gives satellite index x.
RuleCell(x) == IF x % 2 = 0 THEN x \div 2 ELSE 8 + (x \div 2)

RuleTier(x) == IF x <= 3 THEN RED ELSE IF x <= 7 THEN YELLOW ELSE GREEN

\* C14 (as stated): after a tick that read count n, every satellite index x
\* in 0..n-1 has coloured its own cell (x div 2 for even x, 8 + x div 2 for
\* odd x) with its tier (red for 0..3, yellow for 4..7, green from 8 on), and
\* no other index has assigned that cell since.
C14_InterleaveRule ==
    \A x \in 0..(hist.sats - 1) : LED_MATRIX[RuleCell(x)] = RuleTier(x)


\* C15 (as stated): a termination signal delivered at any point after the
\* record command has started never kills the process directly.
C15_SigtermNeverKills == main_pc # "killed"

\* C16 (as stated): at the moment session() creates the three tasks,
\* PICYCLE_STATE is RUNNING and SESSION_STATE is READY, whatever joystick
\* events were delivered before.
C16_StatesFreshAtLoopStart ==
    [][(main_pc = "l520" /\ main_pc' = "l541") =>
         (PICYCLE_STATE' = RUNNING /\ SESSION_STATE' = READY)]_vars


SatRegion == 0..15
IndicatorRegion == 16..31

\* C17: the two writers of LED_MATRIX keep to their regions, for every
\* satellite count (18 satellites included): a turn of loop_track_satellites
\* changes cells 0..15 only, a turn of loop_record_track changes cells
\* 16..31 only, nothing else changes the buffer, and so rows 0-1 carry
\* satellite colours only, rows 2-3 indicator colours only, the rest nothing.
C17_RegionsDisjoint ==
    /\ [](\A i \in Cells :
            LED_MATRIX[i] \in (IF i \in SatRegion THEN {O, RED, YELLOW, GREEN}
                               ELSE IF i \in IndicatorRegion THEN {O, WHITE, BLUE}
                               ELSE {O}))
    /\ [][\A i \in Cells :
            LED_MATRIX'[i] # LED_MATRIX[i] =>
               \/ running = "task_2" /\ i \in SatRegion
               \/ running = "task_1" /\ i \in IndicatorRegion]_vars

C17_Witness ==
    LED_MATRIX[15] = GREEN /\ LED_MATRIX[8] = GREEN /\ LED_MATRIX[16] = BLUE

\* C18 (as stated): at most one store is open at any time, and an INSERT is
\* only ever issued on the open current store after its table exists.
C18_StoreLifecycle ==
    /\ Cardinality({i \in 1..Len(stores) : stores[i].open}) <= 1
    /\ hist.lastInsert \in {"ok", "failed"} => (StoreOpen /\ table)

\* C19 (as stated): after a tick that read count n, exactly min(n, 16) cells
\* of rows 0-1 are lit.
C19_RegionShowsCount ==
    Cardinality({i \in SatRegion : LED_MATRIX[i] # O}) = Min(hist.sats, 16)

\* C20: every frame loop_led_matrix_update pushes has its indicator row
\* (cells 16..23) in one colour, blue when loop_record_track holds an open
\* store at that moment and white when it does not.
C20_FrameIndicatorConsistent ==
    [][(pc["task_3"] = "l169" /\ pc'["task_3"] = "l173") =>
         \A i \in IndicatorCells :
            panel'.pixels[i] = IF StoreOpen THEN BLUE ELSE WHITE]_vars

C20_Witness ==
    /\ pc["task_3"] = "l173"
    /\ panel.kind = "frame"
    /\ \A i \in IndicatorCells : panel.pixels[i] = BLUE
    /\ StoreOpen

====
